---- MODULE Spec2Model ----
(***************************************************************************)
(* A model of src/index.py: the SparseMatrix class (a dict keyed by the    *)
(* string "row,col", with set-driven growth of rows/cols), its arithmetic  *)
(* (add, subtract, multiply), and its text format (to_string,              *)
(* save_to_file, from_file).                                               *)
(*                                                                         *)
(* Text is modelled as a sequence of Unicode code points, so formatting    *)
(* and parsing are computed character by character as Python does.        *)
(* A Python int has no width: it is modelled exactly, as a polynomial in   *)
(* 10^4300, so that the ints str() refuses to format are values of the     *)
(* model. Objects (matrices and their dicts) live in a heap keyed by       *)
(* object identity; the caller's variables matrix1, matrix2 and            *)
(* result_matrix hold references into it.                                  *)
(***************************************************************************)
EXTENDS Integers, Sequences, FiniteSets, TLC

\* ------------------------------------------------------------------ bounds

\* Largest row/column index a caller passes to set_element (the smallest is 0).
MaxIdx == 1
\* Largest magnitude of a value passed to set_element.
MaxVal == 12
\* Largest dimension passed to the constructor SparseMatrix(num_rows, num_cols).
MaxDim == 2
\* Number of set_element calls that add to the matrices the caller builds: a
\* stored coordinate, or a dimension grown by a call that raised (the caller
\* may overwrite a coordinate any number of times).
MaxElems == 2

\* ------------------------------------------------------- python str helpers

\* Python's None as an exception state, or in place of a matrix not returned.
None == "None"

\* Python's None as a reference: no object (object identities start at 1).
Null == 0

\* A local variable: F applied to the value x assigned to it.
With(x, F(_)) == F(x)

\* A Python str is modelled as the sequence of its Unicode code points.
\* The printable ASCII characters in code point order: from 32 (the space)
\* to 95, and from 97 to 126.
AsciiLow ==
    << " ", "!", "\"", "#", "$", "%", "&", "'", "(", ")", "*", "+", ",",
       "-", ".", "/", "0", "1", "2", "3", "4", "5", "6", "7", "8", "9",
       ":", ";", "<", "=", ">", "?", "@", "A", "B", "C", "D", "E", "F",
       "G", "H", "I", "J", "K", "L", "M", "N", "O", "P", "Q", "R", "S",
       "T", "U", "V", "W", "X", "Y", "Z", "[", "\\", "]", "^", "_" >>

AsciiHigh ==
    << "a", "b", "c", "d", "e", "f", "g", "h", "i", "j", "k", "l", "m",
       "n", "o", "p", "q", "r", "s", "t", "u", "v", "w", "x", "y", "z",
       "{", "|", "}", "~" >>

\* ord(c) of an ASCII character.
ord(c) ==
    IF c = "\t" THEN 9
    ELSE IF c = "\n" THEN 10
    ELSE IF c = "\f" THEN 12
    ELSE IF c = "\r" THEN 13
    ELSE IF \E i \in 1..Len(AsciiLow) : AsciiLow[i] = c
    THEN 31 + CHOOSE i \in 1..Len(AsciiLow) : AsciiLow[i] = c
    ELSE 96 + CHOOSE i \in 1..Len(AsciiHigh) : AsciiHigh[i] = c

\* The str written with the ASCII characters of s.
RECURSIVE Text(_)
Text(s) == IF s = <<>> THEN <<>> ELSE <<ord(Head(s))>> \o Text(Tail(s))

Zero == ord("0")

Comma == ord(",")

Minus == ord("-")

Plus == ord("+")

Underscore == ord("_")

EqualsSign == ord("=")

Space == ord(" ")

LParen == ord("(")

RParen == ord(")")

LF == ord("\n")

CR == ord("\r")

\* The characters str.strip() removes when called without arguments: those
\* for which str.isspace() is true (tab, line feed, vertical tab, form feed,
\* carriage return, the separators U+001C..U+001F, space, U+0085, U+00A0 and
\* the Unicode space separators).
Whitespace ==
    (9..13) \cup (28..32) \cup {133, 160, 5760} \cup (8192..8202)
    \cup {8232, 8233, 8239, 8287, 12288}

\* The characters int() ignores around a number: the same, except the
\* separators U+001C..U+001F, which int() rejects.
IntWhitespace == Whitespace \ (28..31)

\* The characters line.strip("()") removes.
Parens == {LParen, RParen}

\* The code point of the digit zero of every Unicode decimal digit script
\* (category Nd): each is followed by its digits one to nine.
DecimalZeros ==
    {48, 1632, 1776, 1984, 2406, 2534, 2662, 2790, 2918,
     3046, 3174, 3302, 3430, 3558, 3664, 3792, 3872, 4160,
     4240, 6112, 6160, 6470, 6608, 6784, 6800, 6992, 7088,
     7232, 7248, 42528, 43216, 43264, 43472, 43504, 43600, 44016,
     65296, 66720, 68912, 69734, 69872, 69942, 70096, 70384, 70736,
     70864, 71248, 71360, 71472, 71904, 72016, 72784, 73040, 73120,
     92768, 92864, 93008, 120782, 120792, 120802, 120812, 120822, 123200,
     123632, 125264, 130032}


\* ------------------------------------------------------------- python int

\* The most digits int() and str() convert between an int and its decimal
\* text: sys.get_int_max_str_digits(), by default.
MaxStrDigits == 4300

\* A Python int is the sequence <<c0, c1, ..., cd>> of the coefficients of a
\* polynomial in Big = 10^MaxStrDigits: it stands for
\* c0 + c1 * Big + ... + cd * Big^d. The last coefficient is not 0, and the
\* int 0 is <<>>, so equal ints are equal sequences. Every coefficient is far
\* smaller than Big, so the sign of an int is the sign of its last coefficient.
IntOf(n) == IF n = 0 THEN <<>> ELSE <<n>>

\* 10^MaxStrDigits: the smallest int with more than MaxStrDigits digits.
Big == <<0, 1>>

RECURSIVE Trim(_)
Trim(p) ==
    IF p # <<>> /\ p[Len(p)] = 0 THEN Trim(SubSeq(p, 1, Len(p) - 1)) ELSE p

RECURSIVE AddCoefs(_, _)
AddCoefs(a, b) ==
    IF a = <<>> THEN b
    ELSE IF b = <<>> THEN a
    ELSE <<a[1] + b[1]>> \o AddCoefs(Tail(a), Tail(b))

RECURSIVE ScaleCoefs(_, _)
ScaleCoefs(a, n) ==
    IF a = <<>> THEN <<>> ELSE <<a[1] * n>> \o ScaleCoefs(Tail(a), n)

\* a + b
IntAdd(a, b) == Trim(AddCoefs(a, b))

\* -a
IntNeg(a) == ScaleCoefs(a, 0 - 1)

\* a - b
IntSub(a, b) == IntAdd(a, IntNeg(b))

\* a * b
RECURSIVE IntMul(_, _)
IntMul(a, b) ==
    IF a = <<>> \/ b = <<>> THEN <<>>
    ELSE IntAdd(ScaleCoefs(b, a[1]), <<0>> \o IntMul(Tail(a), b))

\* -1, 0 or 1
IntSign(a) ==
    IF a = <<>> THEN 0 ELSE IF a[Len(a)] > 0 THEN 1 ELSE 0 - 1

\* a < b
IntLess(a, b) == IntSign(IntSub(a, b)) < 0

\* a >= b
IntGE(a, b) == ~IntLess(a, b)

\* max(a, b)
IntMax(a, b) == IF IntGE(a, b) THEN a ELSE b

\* abs(a)
IntAbs(a) == IF IntSign(a) < 0 THEN IntNeg(a) ELSE a

RECURSIVE Pow10(_)
Pow10(k) == IF k = 0 THEN 1 ELSE 10 * Pow10(k - 1)

\* The decimal digits of a coefficient n >= 0.
RECURSIVE FormatNat(_)
FormatNat(n) ==
    IF n < 10 THEN <<Zero + n>>
    ELSE FormatNat(n \div 10) \o <<Zero + (n % 10)>>

\* The number of decimal digits of a: of c * Big^d + rest it is
\* d * MaxStrDigits plus the digits of c, and one less when c is a power of
\* ten and rest is negative.
NumDigits(a) ==
    LET m    == IntAbs(a)
        d    == Len(m) - 1
        c    == m[Len(m)]
        rest == Trim(SubSeq(m, 1, d))
    IN  IF m = <<>> THEN 1
        ELSE d * MaxStrDigits + Len(FormatNat(c))
             - (IF IntSign(rest) < 0 /\ (\E k \in 0..9 : Pow10(k) = c)
                THEN 1 ELSE 0)

\* The decimal text of an int of at most MaxStrDigits digits. Such an int is
\* a coefficient, or its magnitude is Big - k for a coefficient k > 0, whose
\* digits are those of k - 1 on MaxStrDigits places, each taken from 9.
FormatInt(a) ==
    LET m      == IntAbs(a)
        t      == FormatNat(0 - m[1] - 1)
        pad    == MaxStrDigits - Len(t)
        digits == IF m = <<>> THEN FormatNat(0)
                  ELSE IF Len(m) = 1 THEN FormatNat(m[1])
                  ELSE [i \in 1..MaxStrDigits |->
                          IF i <= pad THEN Zero + 9
                          ELSE Zero + 9 - (t[i - pad] - Zero)]
    IN  IF IntSign(a) < 0 THEN <<Minus>> \o digits ELSE digits

\* str(a), as f"{a}" calls it: ValueError for an int of more than
\* MaxStrDigits digits.
Str(a) ==
    IF NumDigits(a) > MaxStrDigits
    THEN [err |-> "ValueError", s |-> <<>>]
    ELSE [err |-> None, s |-> FormatInt(a)]

\* ------------------------------------------------------- python str methods

RECURSIVE LStrip(_, _)
LStrip(s, chars) ==
    IF s # <<>> /\ Head(s) \in chars THEN LStrip(Tail(s), chars) ELSE s

RECURSIVE RStrip(_, _)
RStrip(s, chars) ==
    IF s # <<>> /\ s[Len(s)] \in chars
    THEN RStrip(SubSeq(s, 1, Len(s) - 1), chars)
    ELSE s

\* s.strip(chars): every leading and trailing character of the set is removed.
Strip(s, chars) == RStrip(LStrip(s, chars), chars)

\* Position of the first occurrence of the character sep in s, 0 when absent.
FindChar(s, sep) ==
    IF \E i \in 1..Len(s) : s[i] = sep
    THEN CHOOSE i \in 1..Len(s) : s[i] = sep /\ \A j \in 1..(i - 1) : s[j] # sep
    ELSE 0

\* s.split(sep) for a one-character separator: always at least one part.
RECURSIVE Split(_, _)
Split(s, sep) ==
    LET i == FindChar(s, sep)
    IN  IF i = 0 THEN <<s>>
        ELSE <<SubSeq(s, 1, i - 1)>> \o Split(SubSeq(s, i + 1, Len(s)), sep)

\* What open(path, "r") hands to the reader of a file's text: universal
\* newlines, every "\r\n" and every other "\r" is translated to "\n".
RECURSIVE UniversalNewlines(_)
UniversalNewlines(text) ==
    LET i == FindChar(text, CR)
    IN  IF i = 0 THEN text
        ELSE SubSeq(text, 1, i - 1) \o <<LF>>
             \o UniversalNewlines(
                  IF i < Len(text) /\ text[i + 1] = LF
                  THEN SubSeq(text, i + 2, Len(text))
                  ELSE SubSeq(text, i + 1, Len(text)))

\* The lines of a text, each keeping its "\n"; a last line without "\n" is a
\* line too, and an empty text has no lines.
RECURSIVE Lines(_)
Lines(text) ==
    LET i == FindChar(text, LF)
    IN  IF text = <<>> THEN <<>>
        ELSE IF i = 0 THEN <<text>>
        ELSE <<SubSeq(text, 1, i)>> \o Lines(SubSeq(text, i + 1, Len(text)))

\* open(path, "r").readlines() of a file that holds text.
ReadLines(text) == Lines(UniversalNewlines(text))

\* A decimal digit of any script, as int() accepts it.
IsDigit(ch) == \E z \in DecimalZeros : z <= ch /\ ch <= z + 9

DigitValue(ch) == ch - (CHOOSE z \in DecimalZeros : z <= ch /\ ch <= z + 9)


\* The value of a run of digits and underscores that fits a coefficient: the
\* underscores are skipped. The run is halved,
\* value(hi) * 10^digits(lo) + value(lo), so that a long run of leading zeros
\* is evaluated without deep recursion.
RECURSIVE NatValue(_)
NatValue(ds) ==
    IF ds = <<>> THEN 0
    ELSE IF Len(ds) = 1
    THEN IF ds[1] = Underscore THEN 0 ELSE DigitValue(ds[1])
    ELSE LET half == Len(ds) \div 2
             hi   == NatValue(SubSeq(ds, 1, half))
             lo   == SubSeq(ds, half + 1, Len(ds))
         IN  IF hi = 0 THEN NatValue(lo)
             ELSE hi * Pow10(Cardinality({i \in 1..Len(lo) : lo[i] # Underscore}))
                  + NatValue(lo)

\* The number of zeros a run of digits starts with.
RECURSIVE LeadingZeros(_)
LeadingZeros(ds) ==
    IF ds = <<>> THEN 0
    ELSE IF Len(ds) = 1 THEN (IF DigitValue(ds[1]) = 0 THEN 1 ELSE 0)
    ELSE LET half == Len(ds) \div 2
             n    == LeadingZeros(SubSeq(ds, 1, half))
         IN  IF n < half THEN n
             ELSE half + LeadingZeros(SubSeq(ds, half + 1, Len(ds)))

\* The int a run of at most MaxStrDigits digits (and underscores) denotes: a
\* coefficient, or, when MaxStrDigits digits remain without the leading
\* zeros, Big - 1 less the number whose digits are these, each taken from 9.
IntValue(ds) ==
    LET digits == SelectSeq(ds, LAMBDA ch : ch # Underscore)
        sig    == SubSeq(digits, LeadingZeros(digits) + 1, Len(digits))
    IN  IF Len(sig) < MaxStrDigits THEN IntOf(NatValue(sig))
        ELSE IntSub(IntSub(Big, IntOf(1)),
                    IntOf(NatValue([i \in 1..Len(sig) |->
                                      Zero + 9 - DigitValue(sig[i])])))

\* int(s): surrounding whitespace is ignored, then an optional sign and at
\* least one decimal digit, with single underscores allowed between digits,
\* and no more than MaxStrDigits digits (leading zeros count, underscores do
\* not); anything else raises ValueError (ok = FALSE).
ParseInt(s) ==
    LET t      == Strip(s, IntWhitespace)
        signed == t # <<>> /\ Head(t) \in {Minus, Plus}
        ds     == IF signed THEN Tail(t) ELSE t
        mag    == IntValue(ds)
    IN  IF /\ ds # <<>>
           /\ \A i \in 1..Len(ds) :
                 \/ IsDigit(ds[i])
                 \/ /\ ds[i] = Underscore
                    /\ 1 < i /\ i < Len(ds)
                    /\ IsDigit(ds[i - 1]) /\ IsDigit(ds[i + 1])
           /\ \/ Len(ds) <= MaxStrDigits
              \/ Cardinality({i \in 1..Len(ds) : ds[i] # Underscore})
                    <= MaxStrDigits
        THEN [ok |-> TRUE,
              val |-> IF signed /\ Head(t) = Minus THEN IntNeg(mag) ELSE mag]
        ELSE [ok |-> FALSE, val |-> IntOf(0)]

\* ------------------------------------------------------------------ objects

\* The identity of the next object constructed.
NewId(h) == Cardinality(DOMAIN h) + 1

\* The matrix objects of the heap (the others are their dicts).
Matrices(h) == {o \in DOMAIN h : h[o].type = "SparseMatrix"}

\* self.elements.items(): a Python dict iterates in insertion order, so its
\* content is a sequence of [key, value].
Items(h, self) == h[h[self].elements].items

Raise(h, kind) == [heap |-> h, ret |-> Null, err |-> kind]

Return(h, id) == [heap |-> h, ret |-> id, err |-> None]

\* ------------------------------------------------------- class SparseMatrix

\* SparseMatrix(num_rows, num_cols): a new object, whose elements is a new
\* empty dict.
SparseMatrix(h, num_rows, num_cols) ==
    LET self == NewId(h)
        dict == NewId(h) + 1
    IN  Return((self :> [type |-> "SparseMatrix", elements |-> dict,
                         rows |-> num_rows, cols |-> num_cols])
               @@ (dict :> [type |-> "dict", items |-> <<>>]) @@ h,
               self)

\* key = f"{row},{col}"
Key(row, col) ==
    With(Str(row), LAMBDA r :
    With(Str(col), LAMBDA c :
      IF r.err # None THEN r
      ELSE IF c.err # None THEN c
      ELSE [err |-> None, s |-> r.s \o <<Comma>> \o c.s]))

DictHas(d, key) == \E i \in 1..Len(d) : d[i].key = key

\* d.get(key, default)
DictGet(d, key, default) ==
    IF DictHas(d, key)
    THEN d[CHOOSE i \in 1..Len(d) : d[i].key = key].value
    ELSE default

\* d[key] = value: an existing key keeps its position, a new key goes last.
DictSet(d, key, value) ==
    IF DictHas(d, key)
    THEN LET i == CHOOSE j \in 1..Len(d) : d[j].key = key
         IN  SubSeq(d, 1, i - 1) \o <<[key |-> key, value |-> value]>>
             \o SubSeq(d, i + 1, Len(d))
    ELSE Append(d, [key |-> key, value |-> value])

\* self.get_element(row, col): the value returned, or the exception of the
\* key's formatting.
get_element(h, self, row, col) ==
    With(Key(row, col), LAMBDA key :
      IF key.err # None THEN [err |-> key.err, val |-> IntOf(0)]
      ELSE [err |-> None, val |-> DictGet(Items(h, self), key.s, IntOf(0))])

\* A faulty set_element that grows a dimension only to the index itself.
set_element_short(h, self, row, col, value) ==
    With([h EXCEPT
            ![self].rows = IF IntGE(row, @) THEN row ELSE @,
            ![self].cols = IF IntGE(col, @) THEN IntAdd(col, IntOf(1)) ELSE @],
         LAMBDA h1 :
    With(Key(row, col), LAMBDA key :
      IF key.err # None THEN [heap |-> h1, err |-> key.err]
      ELSE [heap |-> [h1 EXCEPT ![h[self].elements].items =
                                    DictSet(@, key.s, value)],
            err  |-> None]))

\* self.set_element(row, col, value): rows and cols grow first, then the key
\* is formatted, and only then is the value stored.
set_element(h, self, row, col, value) ==
    With([h EXCEPT
            ![self].rows = IF IntGE(row, @) THEN IntAdd(row, IntOf(1)) ELSE @,
            ![self].cols = IF IntGE(col, @) THEN IntAdd(col, IntOf(1)) ELSE @],
         LAMBDA h1 :
    With(Key(row, col), LAMBDA key :
      IF key.err # None THEN [heap |-> h1, err |-> key.err]
      ELSE [heap |-> [h1 EXCEPT ![h[self].elements].items =
                                    DictSet(@, key.s, value)],
            err  |-> None]))

\* row, col = map(int, key.split(","))
KeyRowCol(key) ==
    With(Split(key, Comma), LAMBDA parts :
      <<ParseInt(parts[1]).val, ParseInt(parts[2]).val>>)

\* for key, value in src.elements.items(): res.set_element(row, col, value)
\* The heap after the loop, or the exception that ended it.
RECURSIVE CopyElements(_, _, _, _)
CopyElements(h, res, src, i) ==
    IF i > Len(Items(h, src)) THEN [heap |-> h, err |-> None]
    ELSE With(Items(h, src)[i], LAMBDA e :
         With(KeyRowCol(e.key), LAMBDA rc :
         With(set_element(h, res, rc[1], rc[2], e.value), LAMBDA out :
           IF out.err # None THEN out
           ELSE CopyElements(out.heap, res, src, i + 1))))

\* for key, value in src.elements.items():
\*     res.set_element(row, col, res.get_element(row, col) + value)
RECURSIVE AddElements(_, _, _, _)
AddElements(h, res, src, i) ==
    IF i > Len(Items(h, src)) THEN [heap |-> h, err |-> None]
    ELSE With(Items(h, src)[i], LAMBDA e :
         With(KeyRowCol(e.key), LAMBDA rc :
         With(get_element(h, res, rc[1], rc[2]), LAMBDA current_value :
           IF current_value.err # None
           THEN [heap |-> h, err |-> current_value.err]
           ELSE With(set_element(h, res, rc[1], rc[2],
                                 IntAdd(current_value.val, e.value)),
                     LAMBDA out :
                  IF out.err # None THEN out
                  ELSE AddElements(out.heap, res, src, i + 1)))))

\* The same loop of subtract: current_value - value.
RECURSIVE SubtractElements(_, _, _, _)
SubtractElements(h, res, src, i) ==
    IF i > Len(Items(h, src)) THEN [heap |-> h, err |-> None]
    ELSE With(Items(h, src)[i], LAMBDA e :
         With(KeyRowCol(e.key), LAMBDA rc :
         With(get_element(h, res, rc[1], rc[2]), LAMBDA current_value :
           IF current_value.err # None
           THEN [heap |-> h, err |-> current_value.err]
           ELSE With(set_element(h, res, rc[1], rc[2],
                                 IntSub(current_value.val, e.value)),
                     LAMBDA out :
                  IF out.err # None THEN out
                  ELSE SubtractElements(out.heap, res, src, i + 1)))))

\* A faulty add whose result is a new object that takes self's dict as its
\* elements instead of a dict of its own.
add_shares_storage(h, self, other) ==
    IF h[self].rows # h[other].rows \/ h[self].cols # h[other].cols
    THEN Raise(h, "ValueError")
    ELSE With(NewId(h), LAMBDA res :
         With(AddElements(
                (res :> [type |-> "SparseMatrix",
                         elements |-> h[self].elements,
                         rows |-> IntMax(h[self].rows, h[other].rows),
                         cols |-> IntMax(h[self].cols, h[other].cols)]) @@ h,
                res, other, 1),
              LAMBDA sum :
           IF sum.err # None THEN Raise(h, sum.err)
           ELSE Return(sum.heap, res)))

\* self.add(other). An exception leaves the result under construction
\* unreachable: it is dropped from the heap.
add(h, self, other) ==
    IF h[self].rows # h[other].rows \/ h[self].cols # h[other].cols
    THEN Raise(h, "ValueError")
    ELSE With(SparseMatrix(h, IntMax(h[self].rows, h[other].rows),
                           IntMax(h[self].cols, h[other].cols)),
              LAMBDA new :
         With(CopyElements(new.heap, new.ret, self, 1), LAMBDA copy :
           IF copy.err # None THEN Raise(h, copy.err)
           ELSE With(AddElements(copy.heap, new.ret, other, 1), LAMBDA sum :
                  IF sum.err # None THEN Raise(h, sum.err)
                  ELSE Return(sum.heap, new.ret))))

\* A faulty subtract that checks only the row counts.
subtract_rows_only(h, self, other) ==
    IF h[self].rows # h[other].rows
    THEN Raise(h, "ValueError")
    ELSE With(SparseMatrix(h, IntMax(h[self].rows, h[other].rows),
                           IntMax(h[self].cols, h[other].cols)),
              LAMBDA new :
         With(CopyElements(new.heap, new.ret, self, 1), LAMBDA copy :
           IF copy.err # None THEN Raise(h, copy.err)
           ELSE With(SubtractElements(copy.heap, new.ret, other, 1), LAMBDA diff :
                  IF diff.err # None THEN Raise(h, diff.err)
                  ELSE Return(diff.heap, new.ret))))

\* self.subtract(other)
subtract(h, self, other) ==
    IF h[self].rows # h[other].rows \/ h[self].cols # h[other].cols
    THEN Raise(h, "ValueError")
    ELSE With(SparseMatrix(h, IntMax(h[self].rows, h[other].rows),
                           IntMax(h[self].cols, h[other].cols)),
              LAMBDA new :
         With(CopyElements(new.heap, new.ret, self, 1), LAMBDA copy :
           IF copy.err # None THEN Raise(h, copy.err)
           ELSE With(SubtractElements(copy.heap, new.ret, other, 1), LAMBDA diff :
                  IF diff.err # None THEN Raise(h, diff.err)
                  ELSE Return(diff.heap, new.ret))))

\* The inner loop of multiply, for the element e1 of self:
\* for key2, value2 in other.elements.items(): if col1 == row2: accumulate.
RECURSIVE MultiplyInner(_, _, _, _, _)
MultiplyInner(h, res, e1, other, j) ==
    IF j > Len(Items(h, other)) THEN [heap |-> h, err |-> None]
    ELSE With(KeyRowCol(e1.key), LAMBDA rc1 :
         With(Items(h, other)[j], LAMBDA e2 :
         With(KeyRowCol(e2.key), LAMBDA rc2 :
           IF rc1[2] # rc2[1] THEN MultiplyInner(h, res, e1, other, j + 1)
           ELSE With(get_element(h, res, rc1[1], rc2[2]), LAMBDA current_value :
                  IF current_value.err # None
                  THEN [heap |-> h, err |-> current_value.err]
                  ELSE With(set_element(h, res, rc1[1], rc2[2],
                                        IntAdd(current_value.val,
                                               IntMul(e1.value, e2.value))),
                            LAMBDA out :
                         IF out.err # None THEN out
                         ELSE MultiplyInner(out.heap, res, e1, other, j + 1))))))

\* The outer loop of multiply: for key1, value1 in self.elements.items().
RECURSIVE MultiplyOuter(_, _, _, _, _)
MultiplyOuter(h, res, self, other, i) ==
    IF i > Len(Items(h, self)) THEN [heap |-> h, err |-> None]
    ELSE With(MultiplyInner(h, res, Items(h, self)[i], other, 1), LAMBDA out :
           IF out.err # None THEN out
           ELSE MultiplyOuter(out.heap, res, self, other, i + 1))

\* self.multiply(other)
multiply(h, self, other) ==
    IF h[self].cols # h[other].rows
    THEN Raise(h, "ValueError")
    ELSE With(SparseMatrix(h, h[self].rows, h[other].cols), LAMBDA new :
         With(MultiplyOuter(new.heap, new.ret, self, other, 1), LAMBDA prod :
           IF prod.err # None THEN Raise(h, prod.err)
           ELSE Return(prod.heap, new.ret)))

\* ---------------------------------------------------------- the text format

RowsEq == Text(<<"r", "o", "w", "s", "=">>)

ColsEq == Text(<<"c", "o", "l", "s", "=">>)

NL == <<LF>>

\* One body line of to_string: row, col = key.split(",");
\* f"({row}, {col}, {value})\n", or the exception of the value's formatting.
ElementLine(e) ==
    With(Split(e.key, Comma), LAMBDA parts :
    With(Str(e.value), LAMBDA value :
      IF value.err # None THEN value
      ELSE [err |-> None,
            s   |-> <<LParen>> \o parts[1] \o <<Comma, Space>> \o parts[2]
                    \o <<Comma, Space>> \o value.s \o <<RParen>> \o NL]))

\* The loop of to_string over self.elements.items(), from entry i on.
RECURSIVE ElementLines(_, _)
ElementLines(d, i) ==
    IF i > Len(d) THEN [err |-> None, s |-> <<>>]
    ELSE With(ElementLine(d[i]), LAMBDA line :
           IF line.err # None THEN line
           ELSE With(ElementLines(d, i + 1), LAMBDA rest :
                  IF rest.err # None THEN rest
                  ELSE [err |-> None, s |-> line.s \o rest.s]))

\* self.to_string(): the text, or the ValueError of formatting rows, cols or
\* a value of more than MaxStrDigits digits.
to_string(h, self) ==
    With(Str(h[self].rows), LAMBDA rows :
    With(Str(h[self].cols), LAMBDA cols :
      IF rows.err # None THEN rows
      ELSE IF cols.err # None THEN cols
      ELSE With(ElementLines(Items(h, self), 1), LAMBDA body :
             IF body.err # None THEN body
             ELSE [err |-> None,
                   s   |-> Strip(RowsEq \o rows.s \o NL \o ColsEq \o cols.s
                                 \o NL \o body.s,
                                 Whitespace)])))

\* The directories that exist, besides the current one. A path is the
\* sequence of its components: <<"data", "out">> is "data/out", <<>> is "".
Dirs == {<<"data">>}

\* open(path, mode): the exception it raises, or None. The empty path names
\* nothing; a component before the last that is no directory is a missing
\* one or a regular file; a directory cannot be opened; and only mode "w"
\* creates the file. (Every directory can be written to.)
OpenError(files, path, mode) ==
    LET bad   == {i \in 1..(Len(path) - 1) : SubSeq(path, 1, i) \notin Dirs}
        first == CHOOSE i \in bad : \A j \in bad : i <= j
    IN  IF path = <<>> THEN "FileNotFoundError"
        ELSE IF bad # {}
        THEN (IF SubSeq(path, 1, first) \in DOMAIN files
              THEN "NotADirectoryError" ELSE "FileNotFoundError")
        ELSE IF path \in Dirs THEN "IsADirectoryError"
        ELSE IF mode = "r" /\ path \notin DOMAIN files THEN "FileNotFoundError"
        ELSE None

\* self.save_to_file(file_path): the files afterwards and the exception
\* raised. The content is computed before the file is opened, so a ValueError
\* of to_string leaves the files alone; open(file_path, "w") creates the file
\* or replaces its content.
save_to_file(files, h, self, file_path) ==
    With(to_string(h, self), LAMBDA content :
      IF content.err # None THEN [files |-> files, err |-> content.err]
      ELSE With(OpenError(files, file_path, "w"), LAMBDA error :
             IF error # None THEN [files |-> files, err |-> error]
             ELSE [files |-> (file_path :> content.s) @@ files, err |-> None]))

\* int(line.strip().split('=')[1]) of a header line: IndexError when the line
\* has no '=', ValueError when the text after the first '=' is no integer.
HeaderValue(line) ==
    With(Split(Strip(line, Whitespace), EqualsSign), LAMBDA parts :
      IF Len(parts) < 2 THEN [err |-> "IndexError", val |-> IntOf(0)]
      ELSE With(ParseInt(parts[2]), LAMBDA n :
             IF ~n.ok THEN [err |-> "ValueError", val |-> IntOf(0)]
             ELSE [err |-> None, val |-> n.val]))

\* The loop over lines[2:] of from_file, from line i on, on the matrix m: the
\* heap after the loop, or the exception that ended it.
RECURSIVE ParseElements(_, _, _, _)
ParseElements(h, m, lines, i) ==
    IF i > Len(lines) THEN [heap |-> h, err |-> None]
    ELSE With(Strip(lines[i], Whitespace), LAMBDA line :
         With(Split(Strip(line, Parens), Comma), LAMBDA fields :
           IF line = <<>> THEN ParseElements(h, m, lines, i + 1)
           ELSE IF Len(fields) # 3
                   \/ \E k \in 1..Len(fields) : ~ParseInt(fields[k]).ok
           THEN [heap |-> h, err |-> "ValueError"]
           ELSE With(set_element(h, m, ParseInt(fields[1]).val,
                                 ParseInt(fields[2]).val,
                                 ParseInt(fields[3]).val),
                     LAMBDA out :
                  IF out.err # None THEN out
                  ELSE ParseElements(out.heap, m, lines, i + 1))))

\* SparseMatrix.from_file(matrix_file_path): the matrix read, or the
\* exception. An exception leaves the matrix under construction unreachable:
\* it is dropped from the heap.
from_file(files, h, matrix_file_path) ==
    With(OpenError(files, matrix_file_path, "r"), LAMBDA error :
      IF error # None THEN Raise(h, error)
      ELSE With(ReadLines(files[matrix_file_path]), LAMBDA lines :
             IF Len(lines) < 2 THEN Raise(h, "ValueError")
             ELSE With(HeaderValue(lines[1]), LAMBDA total_rows :
                    IF total_rows.err # None THEN Raise(h, total_rows.err)
                    ELSE With(HeaderValue(lines[2]), LAMBDA total_cols :
                    IF total_cols.err # None THEN Raise(h, total_cols.err)
                    ELSE With(SparseMatrix(h, total_rows.val, total_cols.val),
                              LAMBDA new :
                    With(ParseElements(new.heap, new.ret, lines, 3), LAMBDA body :
                      IF body.err # None THEN Raise(h, body.err)
                      ELSE Return(body.heap, new.ret)))))))

\* ------------------------------------------------ the caller's input domain

\* Row and column indices the caller passes to set_element: the coordinates of
\* the data model are non-negative, and one has more than MaxStrDigits digits.
\* (from_file passes whatever the file holds.)
Idx == {IntOf(n) : n \in 0..MaxIdx} \cup {Big}

\* Values passed to set_element: negative, explicit zero, positive, and one
\* of more than MaxStrDigits digits.
Vals == {IntOf(0 - MaxVal), IntOf(0), IntOf(MaxVal), Big}

\* Dimensions passed to the constructor.
Dims == {IntOf(n) : n \in 0..MaxDim}

OutPath == <<"out">>

\* The text of the files that exist before the program runs, by name.
InputTexts ==
    [ example   |-> RowsEq \o Text(<<"3">>) \o NL \o ColsEq \o Text(<<"3">>) \o NL
                    \o Text(<<"(", "0", ",", "1", ",", "5", ")">>),
      negative  |-> RowsEq \o Text(<<"1">>) \o NL \o ColsEq \o Text(<<"1">>) \o NL
                    \o Text(<<"(", "-", "1", ",", " ", "0", ",", " ", "5", ")">>) \o NL
                    \o Text(<<"(", "0", ",", " ", "-", "1", ",", " ", "2", ")">>) \o NL,
      grows     |-> RowsEq \o Text(<<"1">>) \o NL \o ColsEq \o Text(<<"1">>) \o NL
                    \o Text(<<"(", "2", ",", " ", "0", ",", " ", "7", ")">>) \o NL,
      blank     |-> RowsEq \o Text(<<"2">>) \o NL \o ColsEq \o Text(<<"2">>) \o NL \o NL
                    \o Text(<<"1", ",", "1", ",", "-", "4">>) \o NL,
      twofields |-> RowsEq \o Text(<<"2">>) \o NL \o ColsEq \o Text(<<"2">>) \o NL
                    \o Text(<<"(", "1", ",", "2", ")">>) \o NL,
      nonintbody|-> RowsEq \o Text(<<"2">>) \o NL \o ColsEq \o Text(<<"2">>) \o NL
                    \o Text(<<"(", "1", ",", "x", ",", "2", ")">>) \o NL,
      oneline   |-> RowsEq \o Text(<<"2">>) \o NL,
      empty     |-> <<>>,
      noequals  |-> Text(<<"r", "o", "w", "s", " ", "2">>) \o NL
                    \o ColsEq \o Text(<<"2">>) \o NL,
      noequals2 |-> RowsEq \o Text(<<"2">>) \o NL
                    \o Text(<<"c", "o", "l", "s", " ", "2">>) \o NL,
      nonint    |-> RowsEq \o Text(<<"x">>) \o NL \o ColsEq \o Text(<<"2">>) \o NL,
      square    |-> RowsEq \o Text(<<"2">>) \o NL \o ColsEq \o Text(<<"2">>) \o NL
                    \o Text(<<"(", "0", ",", " ", "0", ",", " ", "1", ")">>) \o NL
                    \o Text(<<"(", "0", ",", " ", "1", ",", " ", "-", "2", ")">>) \o NL
                    \o Text(<<"(", "1", ",", " ", "0", ",", " ", "3", ")">>) \o NL
                    \o Text(<<"(", "1", ",", " ", "1", ",", " ", "4", ")">>) \o NL,
      swapped   |-> ColsEq \o Text(<<"2">>) \o NL \o RowsEq \o Text(<<"3">>) \o NL,
      \* lines ended by "\r" alone, and by "\r\n"
      oldmac    |-> RowsEq \o Text(<<"2", "\r">>) \o ColsEq \o Text(<<"2", "\r">>)
                    \o Text(<<"(", "0", ",", "0", ",", "1", ")">>),
      crlf      |-> RowsEq \o Text(<<"2", "\r", "\n">>)
                    \o ColsEq \o Text(<<"2", "\r", "\n">>)
                    \o Text(<<"(", "0", ",", "1", ",", "1", ")", "\r", "\n">>),
      \* a body line that holds a form feed only, and a form feed after a number
      formfeed  |-> RowsEq \o Text(<<"1">>) \o NL \o ColsEq \o Text(<<"1", "\f">>) \o NL
                    \o Text(<<"\f">>) \o NL
                    \o Text(<<"(", "0", ",", "0", ",", "1", "\f", ")">>) \o NL,
      \* U+001C: blank for strip(), not for int()
      separator |-> RowsEq \o Text(<<"1">>) \o NL \o ColsEq \o Text(<<"1">>) \o NL
                    \o <<28>> \o NL
                    \o Text(<<"(", "0", ",">>) \o <<28>> \o Text(<<"0", ",", "1", ")">>) \o NL,
      \* underscores between digits
      underscore|-> RowsEq \o Text(<<"1", "_", "0">>) \o NL \o ColsEq \o Text(<<"2">>) \o NL
                    \o Text(<<"(", "1", "_", "1", ",", "0", ",", "-", "1", "_", "2", ")">>) \o NL,
      badunder  |-> RowsEq \o Text(<<"1", "_", "_", "0">>) \o NL
                    \o ColsEq \o Text(<<"2">>) \o NL,
      \* the Arabic-Indic digits U+0663, U+0661, U+0665
      arabic    |-> RowsEq \o <<1635>> \o NL \o ColsEq \o Text(<<"2">>) \o NL
                    \o Text(<<"(", "0", ",">>) \o <<1633>> \o Text(<<",">>) \o <<1637>>
                    \o Text(<<")">>) \o NL,
      \* one line of six characters
      sixchars  |-> RowsEq \o Text(<<"_">>) ]

\* The files that exist before the program runs: path -> text.
InputFiles ==
    [path \in {<<name>> : name \in DOMAIN InputTexts} |-> InputTexts[path[1]]]

\* The paths from_file is called with: the files that exist, one that does
\* not, the one save_to_file writes, the empty path, a directory, a path in a
\* directory that does not exist and a path below a regular file.
ReadPaths ==
    DOMAIN InputFiles
    \cup {<<"missing">>, OutPath, <<>>, <<"data">>, <<"nodir", "in">>,
          <<"example", "in">>}

\* The paths save_to_file is called with: a new file, the empty path and a
\* path in a directory that does not exist.
SavePaths == {OutPath, <<>>, <<"nodir", "out">>}

\* ------------------------------------------------------------------- state

VARIABLES
    heap,           \* object identity -> SparseMatrix or dict
    matrix1,        \* the caller's first matrix (a reference, or Null)
    matrix2,        \* the caller's second matrix
    result_matrix,  \* what the last arithmetic call returned
    files,          \* the files that exist: path -> text
    err,            \* the exception the last call raised, or None
    pc,             \* where the caller is
    hist,           \* history: per matrix constructed empty, the coordinates
                    \* stored in it in the order each was first stored, with
                    \* the value last stored there
    last            \* history: the last call and the dimensions before it

vars == <<heap, matrix1, matrix2, result_matrix, files, err, pc, hist, last>>

NoCall ==
    [op |-> "none", self |-> Null, other |-> Null, row |-> IntOf(0),
     col |-> IntOf(0), value |-> IntOf(0), rows0 |-> IntOf(0),
     cols0 |-> IntOf(0), path |-> <<>>]

EmptyHeap == <<>>

\* The program of the text format: nothing is constructed yet.
Init ==
    /\ heap = EmptyHeap
    /\ matrix1 = Null /\ matrix2 = Null /\ result_matrix = Null
    /\ files = InputFiles
    /\ err = None
    /\ pc = "start"
    /\ hist = EmptyHeap
    /\ last = NoCall

\* The matrices an arithmetic run may start from, as the outcome of the call
\* that makes one on the heap h: constructed empty by the caller, which then
\* builds them with set_element ...
Constructed(h) ==
    {SparseMatrix(h, IntOf(n), IntOf(n)) : n \in {0, MaxDim}}

\* ... or read by from_file from an input file, and left as read.
Loaded(h) ==
    {from_file(InputFiles, h, path) : path \in {<<"negative">>, <<"square">>}}

\* The program of the arithmetic: the caller holds two matrices.
InitArith ==
    /\ \E m1 \in Constructed(EmptyHeap) \cup Loaded(EmptyHeap) :
       \E m2 \in Constructed(m1.heap) \cup Loaded(m1.heap) :
          /\ heap = m2.heap
          /\ matrix1 = m1.ret
          /\ matrix2 = m2.ret
          /\ hist = [o \in {m.ret : m \in ({m1} \cap Constructed(EmptyHeap))
                                       \cup ({m2} \cap Constructed(m1.heap))}
                       |-> <<>>]
    /\ result_matrix = Null
    /\ files = InputFiles
    /\ err = None
    /\ pc = "build"
    /\ last = NoCall

\* matrix1 = SparseMatrix(num_rows, num_cols)
Construct ==
    /\ pc = "start"
    /\ \E num_rows \in Dims, num_cols \in Dims :
          LET out == SparseMatrix(heap, num_rows, num_cols)
          IN  /\ heap' = out.heap
              /\ matrix1' = out.ret
              /\ hist' = (out.ret :> <<>>) @@ hist
              /\ last' = [NoCall EXCEPT !.op = "construct", !.self = out.ret,
                                        !.rows0 = num_rows, !.cols0 = num_cols]
    /\ pc' = "build"
    /\ err' = None
    /\ UNCHANGED <<matrix2, result_matrix, files>>

\* The matrices the caller constructed empty and builds with set_element.
Built == DOMAIN hist

\* What the set_element calls have added to the matrices objs: the number
\* of elements stored, plus the number of dimensions grown beyond Big by a
\* call that raised.
RECURSIVE Stored(_, _)
Stored(h, objs) ==
    IF objs = {} THEN 0
    ELSE LET o == CHOOSE o \in objs : TRUE
         IN  Len(Items(h, o))
             + (IF IntLess(Big, h[o].rows) THEN 1 ELSE 0)
             + (IF IntLess(Big, h[o].cols) THEN 1 ELSE 0)
             + Stored(h, objs \ {o})

\* The history after set_element(row, col, value) stored its value: a
\* coordinate stored before keeps its place and takes the new value, a new
\* coordinate goes last.
Recorded(calls, row, col, value) ==
    IF \E i \in 1..Len(calls) : calls[i][1] = row /\ calls[i][2] = col
    THEN LET i == CHOOSE j \in 1..Len(calls) : calls[j][1] = row /\ calls[j][2] = col
         IN  SubSeq(calls, 1, i - 1) \o <<(<<row, col, value>>)>>
             \o SubSeq(calls, i + 1, Len(calls))
    ELSE Append(calls, <<row, col, value>>)

\* The caller's side of obj.set_element(row, col, value) on a matrix it
\* builds; it goes on after an exception. call is what the history keeps of
\* the call.
SetCalled(obj, row, col, value, call) ==
    LET out == set_element(heap, obj, row, col, value)
    IN  /\ \/ Stored(heap, Built) < MaxElems
           \/ Stored(out.heap, Built) = Stored(heap, Built)
        /\ heap' = out.heap
        /\ err' = out.err
        /\ hist' = IF out.err # None THEN hist
                   ELSE [hist EXCEPT ![obj] = Recorded(hist[obj], row, col, value)]
        /\ last' = call
        /\ UNCHANGED <<matrix1, matrix2, result_matrix, files, pc>>

\* obj.set_element(row, col, value) in the program of the text format: the
\* history keeps the arguments and the dimensions before the call.
SetElement ==
    /\ pc = "build"
    /\ \E obj \in Built, row \in Idx, col \in Idx, value \in Vals :
          SetCalled(obj, row, col, value,
                    [NoCall EXCEPT !.op = "set_element", !.self = obj,
                                   !.row = row, !.col = col, !.value = value,
                                   !.rows0 = heap[obj].rows,
                                   !.cols0 = heap[obj].cols])

\* obj.set_element(row, col, value) on an operand, in the program of the
\* arithmetic: the history keeps only which matrix was set.
SetOperandElement ==
    /\ pc = "build"
    /\ \E obj \in Built, row \in Idx, col \in Idx, value \in Vals :
          SetCalled(obj, row, col, value,
                    [NoCall EXCEPT !.op = "set_element", !.self = obj])

\* The caller's side of an arithmetic call: result_matrix = self.op(other).
\* The caller calls matrix1.op(matrix2), or matrix1.op(matrix1).
Called(op, out, self, other) ==
    /\ heap' = out.heap
    /\ result_matrix' = out.ret
    /\ err' = out.err
    /\ last' = [NoCall EXCEPT !.op = op, !.self = self, !.other = other]
    /\ pc' = "done"
    /\ UNCHANGED <<matrix1, matrix2, files, hist>>

Add ==
    /\ pc = "build"
    /\ \E other \in {matrix1, matrix2} :
          Called("add", add(heap, matrix1, other), matrix1, other)

Subtract ==
    /\ pc = "build"
    /\ \E other \in {matrix1, matrix2} :
          Called("subtract", subtract(heap, matrix1, other), matrix1, other)

Multiply ==
    /\ pc = "build"
    /\ \E other \in {matrix1, matrix2} :
          Called("multiply", multiply(heap, matrix1, other), matrix1, other)

\* The caller's side of obj.save_to_file(path)
Saved(out, obj, path) ==
    /\ files' = out.files
    /\ err' = out.err
    /\ last' = [NoCall EXCEPT !.op = "save_to_file", !.self = obj, !.path = path]
    /\ pc' = "saved"
    /\ UNCHANGED <<heap, matrix1, matrix2, result_matrix, hist>>

\* result_matrix.save_to_file(output_file_path): the last step of the caller
\* after an arithmetic call that returned; a call that raised ends the run.
SaveResult ==
    /\ pc = "done"
    /\ result_matrix # Null
    /\ \E path \in SavePaths :
          Saved(save_to_file(files, heap, result_matrix, path),
                result_matrix, path)

\* matrix1.save_to_file(path)
SaveToFile ==
    /\ pc = "build"
    /\ \E path \in SavePaths :
          Saved(save_to_file(files, heap, matrix1, path), matrix1, path)

\* matrix2 = SparseMatrix.from_file(path): of an input path before anything
\* is built, or of the path just given to save_to_file.
FromFile ==
    /\ \E path \in ReadPaths \cup SavePaths :
          /\ \/ pc = "start" /\ path \in ReadPaths
             \/ pc = "saved" /\ path = last.path
          /\ LET out == from_file(files, heap, path)
             IN  /\ heap' = out.heap
                 /\ matrix2' = out.ret
                 /\ err' = out.err
          /\ last' = [NoCall EXCEPT !.op = "from_file", !.path = path]
    /\ pc' = "loaded"
    /\ UNCHANGED <<matrix1, result_matrix, files, hist>>

Next == Construct \/ SetElement \/ SaveToFile \/ FromFile

NextArith == SetOperandElement \/ Add \/ Subtract \/ Multiply \/ SaveResult

\* The program of the text format: construct, build, save, read back; or read
\* an input file.
Spec == Init /\ [][Next]_vars

\* The program of the arithmetic: build the operands, then one operation, then
\* save its result.
SpecArith == InitArith /\ [][NextArith]_vars

\* ------------------------------------------------------------ the claims

\* Coordinates the claims look at: from -1 to beyond every dimension the
\* small indices reach, and the index of more than MaxStrDigits digits.
Probe == {IntOf(n) : n \in (0 - 1)..(MaxIdx + MaxDim + 1)} \cup {Big}

\* 0 <= n < dim
InRange(n, dim) == IntSign(n) >= 0 /\ IntLess(n, dim)

\* The coordinates (as ints) of the stored keys of the matrix o.
StoredCoords(h, o) == {KeyRowCol(Items(h, o)[i].key) : i \in 1..Len(Items(h, o))}

\* The coordinates set_element stored a value at in the built matrix o.
EverSet(o) == {<<hist[o][i][1], hist[o][i][2]>> : i \in 1..Len(hist[o])}

\* get_element returned val.
Returned(val) == [err |-> None, val |-> val]

\* C1: in every state reached from SparseMatrix(R, C) by set_element calls with
\* non-negative indices, every stored key (r, c) has r < rows and c < cols, and
\* a set_element(r, c, v) leaves rows at r + 1 when r was >= rows and unchanged
\* otherwise (so it never decreases); likewise cols. It holds of a call that
\* raises too: that call grows the dimensions and stores no key.
C1_KeysInRangeAndGrowth ==
    /\ \A o \in Built : \A rc \in StoredCoords(heap, o) :
          IntLess(rc[1], heap[o].rows) /\ IntLess(rc[2], heap[o].cols)
    /\ last.op = "set_element" =>
          /\ heap[last.self].rows =
                (IF IntGE(last.row, last.rows0)
                 THEN IntAdd(last.row, IntOf(1)) ELSE last.rows0)
          /\ heap[last.self].cols =
                (IF IntGE(last.col, last.cols0)
                 THEN IntAdd(last.col, IntOf(1)) ELSE last.cols0)
          /\ IntGE(heap[last.self].rows, last.rows0)
          /\ IntGE(heap[last.self].cols, last.cols0)

\* A set_element that stored its value grew rows beyond a non-zero count and
\* left cols alone, on a matrix that now stores two elements.
C1_Witness ==
    /\ last.op = "set_element" /\ err = None
    /\ IntSign(last.rows0) > 0 /\ IntGE(last.row, last.rows0)
    /\ IntLess(last.col, last.cols0)
    /\ Len(Items(heap, last.self)) = 2

\* A set_element with a row of more than MaxStrDigits digits raised, on a
\* matrix that stores an element (not the witness of a claim: the other case
\* of C1).
C1_RaisingCase ==
    /\ last.op = "set_element" /\ err = "ValueError"
    /\ last.row = Big /\ heap[last.self].rows = IntAdd(Big, IntOf(1))
    /\ Len(Items(heap, last.self)) = 1

\* C2: M.set_element(r, c, v) returns and right after it M.get_element(r, c)
\* returns v, M.rows >= r + 1 and M.cols >= c + 1; and get_element returns 0,
\* with no error, at every coordinate never set on M, inside or outside the
\* dimensions.
C2_GetAfterSet ==
    /\ last.op = "set_element" =>
          /\ err = None
          /\ get_element(heap, last.self, last.row, last.col) = Returned(last.value)
          /\ IntGE(heap[last.self].rows, IntAdd(last.row, IntOf(1)))
          /\ IntGE(heap[last.self].cols, IntAdd(last.col, IntOf(1)))
    /\ \A o \in Built : \A r \in Probe, c \in Probe :
          <<r, c>> \notin EverSet(o) =>
             get_element(heap, o, r, c) = Returned(IntOf(0))

\* The same statement for the coordinates whose key str() can format (not a
\* claim's formula: it shows what the failure of C2 rests on).
C2_ForKeysOfAtMostMaxStrDigits ==
    /\ (last.op = "set_element" /\ Key(last.row, last.col).err = None) =>
          /\ err = None
          /\ get_element(heap, last.self, last.row, last.col) = Returned(last.value)
          /\ IntGE(heap[last.self].rows, IntAdd(last.row, IntOf(1)))
          /\ IntGE(heap[last.self].cols, IntAdd(last.col, IntOf(1)))
    /\ \A o \in Built : \A r \in Probe, c \in Probe :
          (<<r, c>> \notin EverSet(o) /\ Key(r, c).err = None) =>
             get_element(heap, o, r, c) = Returned(IntOf(0))

\* The body line the text format gives a stored coordinate and its value.
FormatLine(call) ==
    <<LParen>> \o FormatInt(call[1]) \o <<Comma, Space>> \o FormatInt(call[2])
    \o <<Comma, Space>> \o FormatInt(call[3]) \o <<RParen>>

\* The text is the two header lines of the matrix o followed by one line per
\* coordinate of its history, in order.
IsTextOf(text, o) ==
    LET lines == Split(text, LF)
    IN  /\ Len(lines) = 2 + Len(hist[o])
        /\ lines[1] = RowsEq \o FormatInt(heap[o].rows)
        /\ lines[2] = ColsEq \o FormatInt(heap[o].cols)
        /\ \A i \in 1..Len(hist[o]) : lines[2 + i] = FormatLine(hist[o][i])

\* C10: after any sequence of set_element calls, to_string() returns the two
\* header lines followed by exactly one line per coordinate ever set, in the
\* order the coordinates were first set, each with the value last set there
\* (also 0).
C10_OneLinePerCoordinateInFirstSetOrder ==
    \A o \in Built :
        /\ to_string(heap, o).err = None
        /\ IsTextOf(to_string(heap, o).s, o)

\* The same statement for the matrices to_string returns a text of (not a
\* claim's formula: it shows what the failure of C10 rests on).
C10_WhenToStringReturns ==
    \A o \in Built :
        to_string(heap, o).err = None => IsTextOf(to_string(heap, o).s, o)

\* The first of two stored coordinates was just overwritten, with 0 (not the
\* witness of a claim: a case of C10_WhenToStringReturns).
C10_OverwriteCase ==
    /\ last.op = "set_element" /\ err = None
    /\ Len(hist[last.self]) = 2
    /\ hist[last.self][1] = <<last.row, last.col, IntOf(0)>>
    /\ to_string(heap, last.self).err = None

\* matrix2 is matrix1 read back: the same rows, the same cols and the same
\* get_element at every coordinate.
ReadBack ==
    /\ err = None
    /\ matrix2 # Null
    /\ heap[matrix2].rows = heap[matrix1].rows
    /\ heap[matrix2].cols = heap[matrix1].cols
    /\ \A r \in Probe, c \in Probe :
          get_element(heap, matrix2, r, c) = get_element(heap, matrix1, r, c)

\* C7: a matrix built by set_element calls, saved by save_to_file and read back
\* by from_file, comes back with the same rows, the same cols and the same
\* get_element at every coordinate.
C7_RoundTrip ==
    (pc = "loaded" /\ last.path = OutPath /\ matrix1 # Null) => ReadBack

\* The same statement for the matrices to_string returns a text of (not a
\* claim's formula: it shows what the failure of C7 rests on).
C7_WhenToStringReturns ==
    (/\ pc = "loaded" /\ last.path = OutPath /\ matrix1 # Null
     /\ to_string(heap, matrix1).err = None) => ReadBack

\* A matrix with an explicit zero at (0, 1) and a negative value at (1, 0) was
\* saved and read back (not the witness of a claim: a case of
\* C7_WhenToStringReturns).
C7_ZeroAndNegativeCase ==
    /\ pc = "loaded" /\ last.path = OutPath /\ matrix1 # Null
    /\ hist[matrix1] = <<(<<IntOf(0), IntOf(1), IntOf(0)>>),
                         (<<IntOf(1), IntOf(0), IntOf(0 - MaxVal)>>)>>

\* A matrix with no stored elements was saved and read back (not the witness
\* of a claim: the other case C7 names).
C7_EmptyCase ==
    /\ pc = "loaded" /\ last.path = OutPath /\ matrix1 # Null
    /\ Items(heap, matrix1) = <<>> /\ heap[matrix1].rows = IntOf(0)

\* C8: no matrix stores an element at a negative row or column: from_file
\* fails on a body line whose row or col is negative.
C8_NoNegativeCoordinate ==
    \A o \in Matrices(heap) : \A rc \in StoredCoords(heap, o) :
        IntSign(rc[1]) >= 0 /\ IntSign(rc[2]) >= 0

\* line is name=<integer>, as the format's header lines are.
IsHeaderLine(line, name) ==
    LET t == Strip(line, Whitespace)
    IN  /\ Len(t) > Len(name)
        /\ SubSeq(t, 1, Len(name)) = name
        /\ ParseInt(SubSeq(t, Len(name) + 1, Len(t))).ok

\* text starts with the two header lines rows=<integer> and cols=<integer>.
WellFormedHeader(text) ==
    /\ Len(ReadLines(text)) >= 2
    /\ IsHeaderLine(ReadLines(text)[1], RowsEq)
    /\ IsHeaderLine(ReadLines(text)[2], ColsEq)

\* C9: from_file of a text with fewer than two lines, or whose line 1 is not
\* rows=<integer>, or whose line 2 is not cols=<integer>, fails with one and
\* the same kind of error (ValueError in this code) and produces no matrix.
C9_MalformedHeaderFails ==
    (/\ last.op = "from_file"
     /\ last.path \in DOMAIN files
     /\ ~WellFormedHeader(files[last.path])) =>
        err = "ValueError" /\ matrix2 = Null

\* What C3 says of the result R of A.add(B) or A.subtract(B) at (r, c).
IsSumAt(op, R, A, B, r, c) ==
    /\ get_element(heap, R, r, c).err = None
    /\ get_element(heap, A, r, c).err = None
    /\ get_element(heap, B, r, c).err = None
    /\ get_element(heap, R, r, c).val =
          IF op = "add"
          THEN IntAdd(get_element(heap, A, r, c).val, get_element(heap, B, r, c).val)
          ELSE IntSub(get_element(heap, A, r, c).val, get_element(heap, B, r, c).val)

\* C3: for operands of equal rows and cols, add returns a matrix of the same
\* rows and cols whose get_element is the sum of the operands' at every
\* in-range coordinate, and subtract one whose get_element is their
\* difference.
C3_AddSubtractElementwise ==
    (/\ last.op \in {"add", "subtract"}
     /\ heap[last.self].rows = heap[last.other].rows
     /\ heap[last.self].cols = heap[last.other].cols) =>
        /\ result_matrix # Null
        /\ heap[result_matrix].rows = heap[last.self].rows
        /\ heap[result_matrix].cols = heap[last.self].cols
        /\ \A r \in Probe, c \in Probe :
              (InRange(r, heap[last.self].rows) /\ InRange(c, heap[last.self].cols))
                 => IsSumAt(last.op, result_matrix, last.self, last.other, r, c)

\* The same statement for every coordinate, in range or not, whose key str()
\* can format (not a claim's formula: it shows what the failure of C3 rests
\* on).
C3_ForKeysOfAtMostMaxStrDigits ==
    (/\ last.op \in {"add", "subtract"}
     /\ heap[last.self].rows = heap[last.other].rows
     /\ heap[last.self].cols = heap[last.other].cols) =>
        /\ result_matrix # Null
        /\ heap[result_matrix].rows = heap[last.self].rows
        /\ heap[result_matrix].cols = heap[last.self].cols
        /\ \A r \in Probe, c \in Probe :
              Key(r, c).err = None
                 => IsSumAt(last.op, result_matrix, last.self, last.other, r, c)

\* Two different matrices that both store a non-zero value at (0, 0) were
\* added (not the witness of a claim: a case of
\* C3_ForKeysOfAtMostMaxStrDigits).
C3_SumCase ==
    /\ last.op = "add" /\ last.self # last.other /\ result_matrix # Null
    /\ get_element(heap, last.self, IntOf(0), IntOf(0)).val # IntOf(0)
    /\ get_element(heap, last.other, IntOf(0), IntOf(0)).val # IntOf(0)
    /\ Len(Items(heap, result_matrix)) >= 2

\* Sum over the columns k of ks of A.get_element(r, k) * B.get_element(k, c).
RECURSIVE RowByColumn(_, _, _, _, _)
RowByColumn(A, B, r, c, ks) ==
    IF ks = {} THEN IntOf(0)
    ELSE LET k == CHOOSE k \in ks : TRUE
         IN  IntAdd(IntMul(get_element(heap, A, r, k).val,
                           get_element(heap, B, k, c).val),
                    RowByColumn(A, B, r, c, ks \ {k}))

\* What C4 says of the result R of A.multiply(B). The columns 0..A.cols-1 are
\* summed over those of Probe: every stored coordinate is one of Probe, so
\* the product is 0 at every other column.
IsProduct(R, A, B) ==
    LET ks == {k \in Probe : InRange(k, heap[A].cols)}
    IN  /\ heap[R].rows = heap[A].rows /\ heap[R].cols = heap[B].cols
        /\ \A r \in Probe, c \in Probe :
              (InRange(r, heap[A].rows) /\ InRange(c, heap[B].cols)) =>
                 /\ get_element(heap, R, r, c).err = None
                 /\ \A k \in ks : /\ get_element(heap, A, r, k).err = None
                                  /\ get_element(heap, B, k, c).err = None
                 /\ get_element(heap, R, r, c).val = RowByColumn(A, B, r, c, ks)

\* C4: for A.cols = B.rows, A.multiply(B) has dimensions (A.rows, B.cols) and
\* its get_element(r, c), for 0 <= r < A.rows and 0 <= c < B.cols, is the sum
\* over k in 0..A.cols-1 of A.get_element(r, k) * B.get_element(k, c).
C4_MultiplyIsRowByColumn ==
    (last.op = "multiply" /\ heap[last.self].cols = heap[last.other].rows) =>
        /\ result_matrix # Null
        /\ IsProduct(result_matrix, last.self, last.other)

\* The same statement for operands that store no negative coordinate and
\* whose in-range coordinates all have keys str() can format (not a claim's
\* formula: it shows what the failure of C4 rests on).
C4_ForNonNegativeKeys ==
    (/\ last.op = "multiply" /\ heap[last.self].cols = heap[last.other].rows
     /\ \A o \in {last.self, last.other} :
           /\ IntGE(Big, heap[o].rows) /\ IntGE(Big, heap[o].cols)
           /\ \A rc \in StoredCoords(heap, o) :
                 IntSign(rc[1]) >= 0 /\ IntSign(rc[2]) >= 0) =>
        /\ result_matrix # Null
        /\ IsProduct(result_matrix, last.self, last.other)

\* C5: an arithmetic call leaves every object that existed before it as it
\* was, so both operands keep their rows, cols, stored elements and order,
\* also when self and other are the same object and when the call fails; a
\* matrix it returns is a new object whose dict is a new object too, so it
\* shares no storage with an operand.
C5_OperandsUnchanged ==
    [][(pc = "build" /\ pc' = "done") =>
          /\ \A o \in DOMAIN heap : heap'[o] = heap[o]
          /\ result_matrix' # Null =>
                /\ result_matrix' \notin DOMAIN heap
                /\ heap'[result_matrix'].elements \notin DOMAIN heap
          /\ result_matrix' = Null => heap' = heap]_vars

\* A matrix that stores elements was added to itself and a result returned.
C5_Witness ==
    /\ pc = "done" /\ last.op = "add" /\ last.self = last.other
    /\ result_matrix # Null
    /\ Len(Items(heap, last.self)) = 2

\* C6: add and subtract fail with the dimension error exactly when the
\* operands' (rows, cols) differ, multiply exactly when self.cols differs from
\* other.rows; a failed call returns no matrix and constructs nothing, a call
\* that passes the check returns one.
C6_DimensionCheck ==
    /\ last.op \in {"add", "subtract"} =>
          (err = "ValueError") =
             (\/ heap[last.self].rows # heap[last.other].rows
              \/ heap[last.self].cols # heap[last.other].cols)
    /\ last.op = "multiply" =>
          (err = "ValueError") = (heap[last.self].cols # heap[last.other].rows)
    /\ last.op \in {"add", "subtract", "multiply"} =>
          /\ err \in {None, "ValueError"}
          /\ (err = "ValueError") = (result_matrix = Null)
          /\ err = "ValueError" =>
                DOMAIN heap = {matrix1, heap[matrix1].elements,
                               matrix2, heap[matrix2].elements}

\* A subtract failed on operands with equal rows and different cols.
C6_Witness ==
    /\ last.op = "subtract" /\ err = "ValueError"
    /\ heap[last.self].rows = heap[last.other].rows
    /\ heap[last.self].cols # heap[last.other].cols
====
